---- MODULE Spec2Model ----
(***************************************************************************)
(* Model of the construction dashboard client:                             *)
(*   - Dashboard (the data loader fetchData, the realtime subscription on  *)
(*     the plans table and its teardown),                                  *)
(*   - Login (handleEmailLogin, handleOAuthLogin).                         *)
(* An async function is modelled as one record per invocation whose pc is  *)
(* the await it is suspended at; the code between two awaits is one atomic *)
(* action, as the JavaScript event loop runs it.                           *)
(***************************************************************************)
EXTENDS FiniteSets, Integers, Naturals, Sequences, TLC

(* ------------------------------ bounds --------------------------------- *)

\* Number of row changes made to the remote plans table while the model runs.
MaxChanges == 1

\* Days the clock can show: 1..MaxDay.
MaxDay == 2

\* Number of form submissions on the login page.
MaxLogins == 2

\* Number of clicks on the "Sign in with Google" button.
MaxOAuth == 1

(* ------------------------------ state ---------------------------------- *)

VARIABLES
    plans,          \* useState<Plan[]>([])
    workflows,      \* useState<Workflow[]>([])
    projects,       \* useState<Project[]>([])
    weather,        \* useState<Weather | null>(null)
    loading,        \* useState(true)
    cycles,         \* one record per invocation of fetchData
    mounted,        \* "no", "yes", "unmounted": lifecycle of the Dashboard effect
    channel,        \* "none", "subscribed", "removed": the plans realtime channel
    remotePlans,    \* the remote plans table
    pending,        \* change events emitted to the channel, not yet delivered
    delivered,      \* change events for which the channel callback has run
    changes,        \* row changes made so far
    clock,          \* the current (UTC) day
    lastResolved,   \* index of the cycle whose plans query resolved successfully last
    dbErrorIsError, \* whether the client library's PostgrestError is an Error subclass
    effects,        \* toast.success / toast.error / router.push calls and browser
                    \* redirects, in the order they happen
    email,          \* Login: useState('')
    password,       \* Login: useState('')
    loginLoading,   \* Login: useState(false)
    signIn,         \* Login: the invocation of handleEmailLogin in flight
    logins,         \* form submissions so far
    oauth           \* Login: one record per invocation of handleOAuthLogin

view == <<plans, workflows, projects, weather>>
dashVars == <<plans, workflows, projects, weather, loading, cycles, mounted, channel,
              remotePlans, pending, delivered, changes, clock, lastResolved,
              dbErrorIsError>>
loginVars == <<email, password, loginLoading, signIn, logins, oauth>>
vars == <<dashVars, effects, loginVars>>

(* --------------------------- remote data ------------------------------- *)

\* interface Plan, reduced to the columns the queries read.
Plan(id, day) == [id |-> id, start_date |-> day]

\* The rows the remote plans table can hold: p1 can be rescheduled, p2 cannot.
PlanRows == {Plan("p1", 1), Plan("p1", 2), Plan("p2", 2)}

\* The plans table holds at most one row per id.
PlanTables == {t \in SUBSET PlanRows : \A p, q \in t : p.id = q.id => p = q}

\* interface Workflow: the remote workflows table.
RemoteWorkflows ==
    { [id |-> "w1", status |-> "delayed"],
      [id |-> "w2", status |-> "on_track"] }

\* interface Project: the remote projects table.
RemoteProjects == { [id |-> "j1", name |-> "Bridge"] }

\* interface Weather: a response body of the weather endpoint.
WeatherData == [name |-> "Kathmandu", temp |-> 21, description |-> "clear sky"]

Null == [null |-> TRUE]
NoResp == [none |-> TRUE]
NoErr == [none |-> TRUE]

(* ----------------------------- errors ---------------------------------- *)

\* The error member of a database response: a PostgrestError carries a message and
\* is, depending on the version of the client library the build resolves, a plain
\* object or an instance of Error.
DbErrors ==
    { [instanceofError |-> dbErrorIsError, message |-> "permission denied for table"] }

\* What axios.get throws: an AxiosError, which is an Error.
HttpErrors == { [instanceofError |-> TRUE, message |-> "Network Error"] }

\* error instanceof Error ? error.message : 'An unexpected error occurred'
DashboardErrorMessage(error) ==
    IF error.instanceofError THEN error.message ELSE "An unexpected error occurred"

ToastError(text) == [kind |-> "toast.error", text |-> text]
ToastSuccess(text) == [kind |-> "toast.success", text |-> text]
RouterPush(path) == [kind |-> "router.push", text |-> path]
Redirect(path) == [kind |-> "redirect", text |-> path]

(* ----------------------------- queries --------------------------------- *)

\* .gte('start_date', today).lte('start_date', today)
PlansFilter(today) == [gte |-> today, lte |-> today]

\* PlansQuery as it would be without the upper bound: today's plans and later ones.
PlansQueryFrom(table, q) ==
    {p \in table : p.start_date >= q.gte}

\* The rows of table the plans query selects.
PlansQuery(table, q) ==
    {p \in table : p.start_date >= q.gte /\ p.start_date <= q.lte}

\* .eq('status', 'delayed')
WorkflowsQuery(table) == {w \in table : w.status = "delayed"}

\* .select('id, name, location') with no filter
ProjectsQuery(table) == table

\* data || []
OrEmpty(resp) == IF "data" \in DOMAIN resp THEN resp.data ELSE {}

HasError(resp) == "error" \in DOMAIN resp

(* ------------------------- Dashboard: fetchData ------------------------ *)

Requests == {"plans", "workflows", "projects", "weather"}

\* The view state each request feeds.
ViewOf(r) ==
    CASE r = "plans" -> plans
      [] r = "workflows" -> workflows
      [] r = "projects" -> projects
      [] r = "weather" -> weather

\* The view state as a call of fetchData finds it.
ViewNow == [r \in Requests |-> ViewOf(r)]

\* NewCycle as it would be with the four requests started together (Promise.all).
NewCycleAllAtOnce(today) ==
    [ pc       |-> "await_plans",
      today    |-> today,
      query    |-> PlansFilter(today),
      issued   |-> Requests,
      settled  |-> {},
      resp     |-> NoResp,
      got      |-> NoResp,
      caught   |-> NoErr,
      failedAt |-> "none",
      before   |-> ViewNow ]

\* fetchData up to its first await: today is computed and the plans query is issued.
NewCycle(today) ==
    [ pc       |-> "await_plans",
      today    |-> today,
      query    |-> PlansFilter(today),
      issued   |-> {"plans"},
      settled  |-> {},
      resp     |-> NoResp,
      got      |-> NoResp,
      caught   |-> NoErr,
      failedAt |-> "none",
      before   |-> ViewNow ]

\* FetchDataStart as it would be if fetchData cleared the view state before
\* fetching.
FetchDataStartReset ==
    /\ loading' = TRUE
    /\ cycles' = Append(cycles, NewCycle(clock))
    /\ plans' = {}
    /\ workflows' = {}
    /\ projects' = {}
    /\ weather' = Null

\* A call of fetchData(): setLoading(true), then the code up to the first await.
\* No view state is set before the first await.
FetchDataStart ==
    /\ loading' = TRUE
    /\ cycles' = Append(cycles, NewCycle(clock))
    /\ UNCHANGED view

InFlight(i) == cycles[i].pc \notin {"done", "failed"}

\* A request of cycle i resolved without error: the state setter has run and the
\* next request is issued.  today and the query are not read after the plans await
\* and are dropped; got keeps the rows the plans query returned.  before (the view
\* state the call found) is history, kept while the cycle is in flight for the
\* requests it has not fetched.
Advance(i, req, nextPc, nextReq) ==
    cycles' =
        [j \in DOMAIN cycles |->
            IF j = i
              THEN [cycles[i] EXCEPT
                      !.pc = nextPc,
                      !.today = 0,
                      !.query = NoResp,
                      !.got = IF req = "plans" THEN [data |-> OrEmpty(cycles[i].resp)]
                                               ELSE @,
                      !.resp = NoResp,
                      !.settled = @ \cup {req},
                      !.issued = @ \cup nextReq,
                      !.before = IF nextPc = "done" THEN NoResp
                                 ELSE [r \in (DOMAIN @) \ {req} |-> @[r]]]
              ELSE cycles[j]]

\* The await that follows request req in fetchData, and the request issued there.
NextPc(req) ==
    CASE req = "plans" -> "await_workflows"
      [] req = "workflows" -> "await_projects"
      [] req = "projects" -> "await_weather"
      [] req = "weather" -> "done"

NextReq(req) ==
    CASE req = "plans" -> {"workflows"}
      [] req = "workflows" -> {"projects"}
      [] req = "projects" -> {"weather"}
      [] req = "weather" -> {}

\* FailCycle as it would be with one try/catch per request: the error is reported
\* and fetchData goes on to the next request.
FailCycleContinue(i, req, error) ==
    /\ cycles' = [cycles EXCEPT ![i].pc = NextPc(req),
                                ![i].settled = @ \cup {req},
                                ![i].issued = @ \cup NextReq(req),
                                ![i].today = 0,
                                ![i].query = NoResp,
                                ![i].resp = NoResp,
                                ![i].caught = error,
                                ![i].failedAt = req]
    /\ effects' = Append(effects,
                         ToastError("Error fetching data: " \o DashboardErrorMessage(error)))
    /\ loading' = IF req = "weather" THEN FALSE ELSE loading
    /\ UNCHANGED view

\* FailCycle as it would be if the catch block cleared the view state.
FailCycleReset(i, req, error) ==
    /\ cycles' = [cycles EXCEPT ![i].pc = "failed",
                                ![i].settled = @ \cup {req},
                                ![i].today = 0,
                                ![i].query = NoResp,
                                ![i].resp = NoResp,
                                ![i].caught = error,
                                ![i].failedAt = req,
                                ![i].before = NoResp]
    /\ effects' = Append(effects,
                         ToastError("Error fetching data: " \o DashboardErrorMessage(error)))
    /\ loading' = FALSE
    /\ plans' = {}
    /\ workflows' = {}
    /\ projects' = {}
    /\ weather' = Null

\* FailCycle as it would be with setLoading(false) at the end of the try block
\* instead of in finally.
FailCycleNoFinally(i, req, error) ==
    /\ cycles' = [cycles EXCEPT ![i].pc = "failed",
                                ![i].settled = @ \cup {req},
                                ![i].today = 0,
                                ![i].query = NoResp,
                                ![i].resp = NoResp,
                                ![i].caught = error,
                                ![i].failedAt = req,
                                ![i].before = NoResp]
    /\ effects' = Append(effects,
                         ToastError("Error fetching data: " \o DashboardErrorMessage(error)))
    /\ UNCHANGED loading
    /\ UNCHANGED view

\* Request req of cycle i failed with error: throw, catch, finally.
FailCycle(i, req, error) ==
    /\ cycles' = [cycles EXCEPT ![i].pc = "failed",
                                ![i].settled = @ \cup {req},
                                ![i].today = 0,
                                ![i].query = NoResp,
                                ![i].resp = NoResp,
                                ![i].caught = error,
                                ![i].failedAt = req,
                                ![i].before = NoResp]
    /\ effects' = Append(effects,
                         ToastError("Error fetching data: " \o DashboardErrorMessage(error)))
    /\ loading' = FALSE
    /\ UNCHANGED view

\* useEffect body: fetchData(), then subscribe to the plans channel.
Mount ==
    /\ mounted = "no"
    /\ mounted' = "yes"
    /\ FetchDataStart
    /\ channel' = "subscribed"
    /\ UNCHANGED <<remotePlans, pending, delivered, changes, clock, lastResolved,
                   effects, dbErrorIsError, loginVars>>

\* The database evaluates the plans query of cycle i, or rejects it.
ServerPlans(i) ==
    /\ cycles[i].pc = "await_plans"
    /\ cycles[i].resp = NoResp
    /\ \E r \in {[data |-> PlansQuery(remotePlans, cycles[i].query), table |-> remotePlans]}
              \cup {[error |-> e] : e \in DbErrors} :
          cycles' = [cycles EXCEPT ![i].resp = r]
    /\ UNCHANGED <<view, loading, mounted, channel, remotePlans, pending, delivered,
                   changes, clock, lastResolved, effects, dbErrorIsError, loginVars>>

\* ResolvePlans as it would be if the result of a superseded cycle were ignored.
ResolvePlansLatestOnly(i) ==
    /\ cycles[i].pc = "await_plans"
    /\ cycles[i].resp # NoResp
    /\ IF HasError(cycles[i].resp)
         THEN /\ FailCycle(i, "plans", cycles[i].resp.error)
              /\ UNCHANGED lastResolved
         ELSE /\ plans' = IF i = Len(cycles) THEN OrEmpty(cycles[i].resp) ELSE plans
              /\ lastResolved' = i
              /\ Advance(i, "plans", "await_workflows", {"workflows"})
              /\ UNCHANGED <<workflows, projects, weather, loading, effects>>
    /\ UNCHANGED <<mounted, channel, remotePlans, pending, delivered, changes, clock,
                   dbErrorIsError, loginVars>>

\* Continuation after the plans await of cycle i.
ResolvePlans(i) ==
    /\ cycles[i].pc = "await_plans"
    /\ cycles[i].resp # NoResp
    /\ IF HasError(cycles[i].resp)
         THEN /\ FailCycle(i, "plans", cycles[i].resp.error)
              /\ UNCHANGED lastResolved
         ELSE /\ plans' = OrEmpty(cycles[i].resp)
              /\ lastResolved' = i
              /\ Advance(i, "plans", "await_workflows", {"workflows"})
              /\ UNCHANGED <<workflows, projects, weather, loading, effects>>
    /\ UNCHANGED <<mounted, channel, remotePlans, pending, delivered, changes, clock,
                   dbErrorIsError, loginVars>>

\* Continuation after the workflows await of cycle i.
ResolveWorkflows(i) ==
    /\ cycles[i].pc = "await_workflows"
    /\ \E r \in {[data |-> WorkflowsQuery(RemoteWorkflows)]}
              \cup {[error |-> e] : e \in DbErrors} :
          IF HasError(r)
            THEN FailCycle(i, "workflows", r.error)
            ELSE /\ workflows' = OrEmpty(r)
                 /\ Advance(i, "workflows", "await_projects", {"projects"})
                 /\ UNCHANGED <<plans, projects, weather, loading, effects>>
    /\ UNCHANGED <<mounted, channel, remotePlans, pending, delivered, changes, clock,
                   lastResolved, dbErrorIsError, loginVars>>

\* Continuation after the projects await of cycle i.
ResolveProjects(i) ==
    /\ cycles[i].pc = "await_projects"
    /\ \E r \in {[data |-> ProjectsQuery(RemoteProjects)]}
              \cup {[error |-> e] : e \in DbErrors} :
          IF HasError(r)
            THEN FailCycle(i, "projects", r.error)
            ELSE /\ projects' = OrEmpty(r)
                 /\ Advance(i, "projects", "await_weather", {"weather"})
                 /\ UNCHANGED <<plans, workflows, weather, loading, effects>>
    /\ UNCHANGED <<mounted, channel, remotePlans, pending, delivered, changes, clock,
                   lastResolved, dbErrorIsError, loginVars>>

\* Continuation after the axios.get await of cycle i; finally runs on both paths.
ResolveWeather(i) ==
    /\ cycles[i].pc = "await_weather"
    /\ \E r \in {[data |-> WeatherData]} \cup {[error |-> e] : e \in HttpErrors} :
          IF HasError(r)
            THEN FailCycle(i, "weather", r.error)
            ELSE /\ weather' = r.data
                 /\ Advance(i, "weather", "done", {})
                 /\ loading' = FALSE
                 /\ UNCHANGED <<plans, workflows, projects, effects>>
    /\ UNCHANGED <<mounted, channel, remotePlans, pending, delivered, changes, clock,
                   lastResolved, dbErrorIsError, loginVars>>

(* --------------------- Dashboard: realtime channel --------------------- *)

\* A row of the remote plans table is inserted, updated or deleted; the change is
\* emitted to the channel if it is subscribed.  Changes made before the dashboard
\* is mounted are covered by the choice of the initial table.
DbChange ==
    /\ mounted # "no"
    /\ changes < MaxChanges
    /\ \E t \in PlanTables :
          /\ Cardinality((t \ remotePlans) \cup (remotePlans \ t)) \in {1, 2}
          /\ Cardinality({p.id : p \in (t \ remotePlans) \cup (remotePlans \ t)}) = 1
          /\ remotePlans' = t
    /\ changes' = changes + 1
    /\ pending' = IF channel = "subscribed" THEN pending + 1 ELSE pending
    /\ UNCHANGED <<view, loading, cycles, mounted, channel, delivered, clock,
                   lastResolved, effects, dbErrorIsError, loginVars>>

\* OnPlansChange as it would be if an event were ignored while a fetch is in flight.
OnPlansChangeCollapsed ==
    /\ channel = "subscribed"
    /\ pending > 0
    /\ pending' = pending - 1
    /\ delivered' = delivered + 1
    /\ IF \E i \in DOMAIN cycles : InFlight(i)
         THEN UNCHANGED <<loading, cycles, view>>
         ELSE FetchDataStart
    /\ UNCHANGED <<mounted, channel, remotePlans, changes, clock, lastResolved,
                   effects, dbErrorIsError, loginVars>>

\* The postgres_changes callback: () => { fetchData(); }
OnPlansChange ==
    /\ channel = "subscribed"
    /\ pending > 0
    /\ pending' = pending - 1
    /\ delivered' = delivered + 1
    /\ FetchDataStart
    /\ UNCHANGED <<mounted, channel, remotePlans, changes, clock, lastResolved,
                   effects, dbErrorIsError, loginVars>>

\* Unmount as it would be if the effect returned no cleanup.
UnmountKeepsChannel ==
    /\ mounted = "yes"
    /\ mounted' = "unmounted"
    /\ UNCHANGED channel
    /\ UNCHANGED <<view, loading, cycles, remotePlans, pending, delivered, changes,
                   clock, lastResolved, effects, dbErrorIsError, loginVars>>

\* The effect's cleanup: supabase.removeChannel(plansSubscription).
Unmount ==
    /\ mounted = "yes"
    /\ mounted' = "unmounted"
    /\ channel' = "removed"
    /\ UNCHANGED <<view, loading, cycles, remotePlans, pending, delivered, changes,
                   clock, lastResolved, effects, dbErrorIsError, loginVars>>

\* Midnight (UTC) passes.
Tick ==
    /\ clock < MaxDay
    /\ clock' = clock + 1
    /\ UNCHANGED <<view, loading, cycles, mounted, channel, remotePlans, pending,
                   delivered, changes, lastResolved, effects, dbErrorIsError, loginVars>>

(* ------------------------------- Login --------------------------------- *)

Emails == {"ana@site.np", "raj@site.np"}
Passwords == {"secret", "wrong"}

\* The credentials the identity provider accepts.
Accounts == { [email |-> "ana@site.np", password |-> "secret"] }

\* The error the provider returns for credentials it rejects: an AuthError, which
\* is an Error.
AuthErrors == { [instanceofError |-> TRUE, message |-> "Invalid login credentials"] }

\* What signInWithPassword or signInWithOAuth can throw instead of returning: an
\* Error, or an object that is no Error, with a message, with an empty message or
\* with none.
ThrownFailures ==
    { [instanceofError |-> TRUE, message |-> "Failed to fetch"],
      [instanceofError |-> FALSE, message |-> "Service unavailable"],
      [instanceofError |-> FALSE, message |-> ""],
      [instanceofError |-> FALSE] }

\* (error as SupabaseError).message, as a condition
MessageTruthy(error) == "message" \in DOMAIN error /\ error.message # ""

\* LoginErrorMessage as the Dashboard computes its message: instanceof Error only.
LoginErrorMessageInstanceOnly(error) ==
    IF error.instanceofError THEN error.message ELSE "An unexpected error occurred"

\* error instanceof Error || (error as SupabaseError).message
\*   ? error.message : 'An unexpected error occurred'
LoginErrorMessage(error) ==
    IF error.instanceofError \/ MessageTruthy(error)
      THEN error.message
      ELSE "An unexpected error occurred"

\* What signInWithOAuth returns as error: an AuthError, which is an Error.
OAuthErrors ==
    { [instanceofError |-> TRUE,
       message |-> "Unsupported provider: provider is not enabled"] }

Navigations == {k \in DOMAIN effects : effects[k].kind \in {"router.push", "redirect"}}

\* The route shown: the target of the last navigation, the login page before any.
Route ==
    IF Navigations = {} THEN "/login"
    ELSE effects[CHOOSE k \in Navigations : \A m \in Navigations : m <= k].text

\* The document that runs the Login code is still loaded: router.push navigates
\* inside it, the OAuth redirect replaces it and what it had in flight is lost.
PageLoaded == \A k \in DOMAIN effects : effects[k].kind # "redirect"

\* onChange of the email input
SetEmail(v) ==
    /\ Route = "/login"
    /\ email # v
    /\ email' = v
    /\ UNCHANGED <<dashVars, effects, password, loginLoading, signIn, logins, oauth>>

\* onChange of the password input
SetPassword(v) ==
    /\ Route = "/login"
    /\ password # v
    /\ password' = v
    /\ UNCHANGED <<dashVars, effects, email, loginLoading, signIn, logins, oauth>>

\* onSubmit: handleEmailLogin up to its await.  Both inputs are required and the
\* submit button is disabled while loading.
SubmitLogin ==
    /\ Route = "/login"
    /\ logins < MaxLogins
    /\ ~loginLoading
    /\ email # ""
    /\ password # ""
    /\ loginLoading' = TRUE
    /\ signIn' = [email |-> email, password |-> password, resp |-> NoResp]
    /\ logins' = logins + 1
    /\ UNCHANGED <<dashVars, effects, email, password, oauth>>

\* The identity provider answers the request in flight, or the call throws.
ProviderRespond ==
    /\ signIn # NoResp
    /\ signIn.resp = NoResp
    /\ \E r \in (IF [email |-> signIn.email, password |-> signIn.password] \in Accounts
                   THEN {[ok |-> TRUE]}
                   ELSE {[error |-> e] : e \in AuthErrors})
                \cup {[thrown |-> e] : e \in ThrownFailures} :
          signIn' = [signIn EXCEPT !.resp = r]
    /\ UNCHANGED <<dashVars, effects, email, password, loginLoading, logins, oauth>>

\* The value the catch block of handleEmailLogin receives.
Caught(resp) == IF "error" \in DOMAIN resp THEN resp.error ELSE resp.thrown

\* Continuation of handleEmailLogin after its await: try, catch, finally.
ResolveSignIn ==
    /\ PageLoaded
    /\ signIn # NoResp
    /\ signIn.resp # NoResp
    /\ IF "ok" \in DOMAIN signIn.resp
         THEN effects' = effects \o <<ToastSuccess("Login successful!"),
                                      RouterPush("/dashboard")>>
         ELSE effects' = Append(effects,
                  ToastError("Login failed: " \o LoginErrorMessage(Caught(signIn.resp))))
    /\ loginLoading' = FALSE
    /\ signIn' = NoResp
    /\ UNCHANGED <<dashVars, email, password, logins, oauth>>

\* onClick of "Sign in with Google": handleOAuthLogin up to its await.  The button
\* is never disabled and the handler does not touch loading.
ClickOAuth ==
    /\ Route = "/login"
    /\ Len(oauth) < MaxOAuth
    /\ oauth' = Append(oauth, [pc |-> "await_signIn", resp |-> NoResp])
    /\ UNCHANGED <<dashVars, effects, email, password, loginLoading, signIn, logins>>

\* signInWithOAuth of invocation i returns the provider URL or an error, or throws.
OAuthRespond(i) ==
    /\ oauth[i].pc = "await_signIn"
    /\ oauth[i].resp = NoResp
    /\ \E r \in {[ok |-> TRUE]} \cup {[error |-> e] : e \in OAuthErrors}
                \cup {[thrown |-> e] : e \in ThrownFailures} :
          oauth' = [oauth EXCEPT ![i].resp = r]
    /\ UNCHANGED <<dashVars, effects, email, password, loginLoading, signIn, logins>>

\* Continuation of handleOAuthLogin after its await: on success the browser is
\* redirected (through the provider) to origin + '/dashboard', with no toast; on
\* failure the catch block reports it.
ResolveOAuth(i) ==
    /\ PageLoaded
    /\ oauth[i].pc = "await_signIn"
    /\ oauth[i].resp # NoResp
    /\ IF "ok" \in DOMAIN oauth[i].resp
         THEN effects' = Append(effects, Redirect("/dashboard"))
         ELSE effects' = Append(effects,
                  ToastError("Google login failed: "
                             \o LoginErrorMessage(Caught(oauth[i].resp))))
    /\ oauth' = [oauth EXCEPT ![i].pc = "done", ![i].resp = NoResp]
    /\ UNCHANGED <<dashVars, email, password, loginLoading, signIn, logins>>

(* ------------------------------ Spec ----------------------------------- *)

LoginInitial ==
    /\ email = ""
    /\ password = ""
    /\ loginLoading = FALSE
    /\ signIn = NoResp
    /\ logins = 0
    /\ oauth = <<>>

Init ==
    /\ plans = {}
    /\ workflows = {}
    /\ projects = {}
    /\ weather = Null
    /\ loading = TRUE
    /\ cycles = <<>>
    /\ mounted = "no"
    /\ channel = "none"
    /\ remotePlans = {Plan("p1", 1), Plan("p2", 2)}
    /\ pending = 0
    /\ delivered = 0
    /\ changes = 0
    /\ clock = 1
    /\ lastResolved = 0
    /\ dbErrorIsError \in BOOLEAN
    /\ effects = <<>>
    /\ LoginInitial

Next ==
    \/ Mount
    \/ Unmount
    \/ DbChange
    \/ OnPlansChange
    \/ Tick
    \/ \E i \in DOMAIN cycles : ServerPlans(i)
    \/ \E i \in DOMAIN cycles : ResolvePlans(i)
    \/ \E i \in DOMAIN cycles : ResolveWorkflows(i)
    \/ \E i \in DOMAIN cycles : ResolveProjects(i)
    \/ \E i \in DOMAIN cycles : ResolveWeather(i)

Spec == Init /\ [][Next]_vars

LoginNext ==
    \/ \E v \in Emails : SetEmail(v)
    \/ \E v \in Passwords : SetPassword(v)
    \/ SubmitLogin
    \/ ProviderRespond
    \/ ResolveSignIn
    \/ ClickOAuth
    \/ \E i \in DOMAIN oauth : OAuthRespond(i)
    \/ \E i \in DOMAIN oauth : ResolveOAuth(i)

\* The login page alone.
LoginSpec == Init /\ [][LoginNext]_vars

(* ------------------------------ claims --------------------------------- *)

Failed(i) == cycles[i].failedAt # "none"
ErrorToasts == {k \in DOMAIN effects : effects[k].kind = "toast.error"}
Prefixes ==
    { {"plans"}, {"plans", "workflows"}, {"plans", "workflows", "projects"}, Requests }

\* C1 as stated: a cycle whose plans query failed still obtains and applies the
\* results of its workflows and projects queries, and reports one error.
C1_NoFailureCascade ==
    \A i \in DOMAIN cycles :
        cycles[i].failedAt = "plans" =>
            /\ {"workflows", "projects"} \subseteq cycles[i].settled
            /\ Cardinality(ErrorToasts) = Cardinality({j \in DOMAIN cycles : Failed(j)})

\* C1 as amended: a cycle whose plans query failed ends there -- it has issued no
\* request but the plans query, so it sets neither workflows nor projects -- and
\* every failed cycle has raised exactly one error notification.
C1_PlansFailureEndsCycle ==
    /\ \A i \in DOMAIN cycles :
          cycles[i].failedAt = "plans" =>
              /\ cycles[i].pc = "failed"
              /\ cycles[i].issued = {"plans"}
              /\ cycles[i].settled = {"plans"}
    /\ Cardinality(ErrorToasts) = Cardinality({j \in DOMAIN cycles : Failed(j)})

\* A cycle's plans query has failed while workflows and projects show the results
\* an earlier cycle fetched.
C1_Witness ==
    \E i \in DOMAIN cycles :
        /\ cycles[i].failedAt = "plans"
        /\ workflows # {}
        /\ projects # {}

\* C2 as stated: the four requests of a cycle are all outstanding before any of
\* them has resolved.
C2_AllIssuedTogether ==
    \A i \in DOMAIN cycles :
        cycles[i].settled = {} => cycles[i].issued = Requests

\* C2 as amended: the requests of a cycle are issued one at a time in the order
\* plans, workflows, projects, weather, each only after the one before it resolved
\* without error; at most one request of a cycle is outstanding, and a failed
\* cycle has none.
C2_OneRequestAtATime ==
    \A i \in DOMAIN cycles :
        /\ cycles[i].issued \in Prefixes
        /\ cycles[i].settled \subseteq cycles[i].issued
        /\ Cardinality(cycles[i].issued \ cycles[i].settled) <= 1
        /\ Failed(i) =>
              /\ cycles[i].issued = cycles[i].settled
              /\ cycles[i].failedAt \in cycles[i].issued
              /\ cycles[i].issued \cup NextReq(cycles[i].failedAt) \in Prefixes
              /\ NextReq(cycles[i].failedAt) \cap cycles[i].issued = {}

\* A cycle waits for its projects query, the plans and workflows queries settled,
\* the weather request not yet issued.
C2_Witness ==
    \E i \in DOMAIN cycles :
        /\ cycles[i].pc = "await_projects"
        /\ cycles[i].settled = {"plans", "workflows"}
        /\ cycles[i].issued = {"plans", "workflows", "projects"}

LoginResolves == signIn # NoResp /\ signIn' = NoResp

\* C3: when a submission resolves, either the provider accepted the credentials and
\* a success notification followed by a navigation to /dashboard is produced, or
\* the provider rejected them (or the call threw) and exactly one failure
\* notification and no navigation (push or redirect) is produced, with the text "Login failed: "
\* followed by the error's message whenever the error carries one.
C3_LoginOutcome ==
    [][ LoginResolves =>
          IF "ok" \in DOMAIN signIn.resp
            THEN /\ [email |-> signIn.email, password |-> signIn.password] \in Accounts
                 /\ Len(effects') = Len(effects) + 2
                 /\ effects'[Len(effects) + 1] = ToastSuccess("Login successful!")
                 /\ effects'[Len(effects) + 2] = RouterPush("/dashboard")
            ELSE /\ Len(effects') = Len(effects) + 1
                 /\ effects'[Len(effects) + 1].kind = "toast.error"
                 /\ MessageTruthy(Caught(signIn.resp)) =>
                        effects'[Len(effects) + 1].text
                            = "Login failed: " \o Caught(signIn.resp).message
                 /\ Navigations' \subseteq DOMAIN effects
      ]_vars

\* A rejected submission reported the provider's message, without navigation, and
\* a later accepted one navigated to /dashboard after its success notification.
C3_Witness ==
    /\ Len(effects) = 3
    /\ effects[1] = ToastError("Login failed: Invalid login credentials")
    /\ effects[2] = ToastSuccess("Login successful!")
    /\ effects[3] = RouterPush("/dashboard")
    /\ Route = "/dashboard"

\* C4 as stated: every failed cycle has raised a notification whose text carries
\* the message of the error that made it fail.
C4_MessageForwarded ==
    \A i \in DOMAIN cycles :
        Failed(i) =>
            \E k \in ErrorToasts :
                effects[k].text = "Error fetching data: " \o cycles[i].caught.message

\* C5: while and after the dashboard is mounted, the number of fetch cycles started
\* is one plus the number of change events delivered.
C5_OneCyclePerEvent ==
    mounted # "no" => Len(cycles) = 1 + delivered

\* An event was delivered, and started a cycle, while the mount cycle was in flight.
C5_Witness ==
    /\ delivered = 1
    /\ Len(cycles) = 2
    /\ InFlight(1)
    /\ InFlight(2)

\* C6: after unmount no step starts a fetch cycle.
C6_NoFetchAfterUnmount ==
    [][ mounted = "unmounted" => Len(cycles') = Len(cycles) ]_vars

\* The table changed after unmount, the change was not emitted to the removed
\* channel, and no cycle was started for it.
C6_Witness ==
    /\ mounted = "unmounted"
    /\ changes > pending + delivered
    /\ Len(cycles) = 1 + delivered

PlansResolves(i) ==
    cycles[i].pc = "await_plans" /\ cycles'[i].pc = "await_workflows"

\* C7: when the plans query of a cycle resolves without error, the query's bounds
\* are both the date D the cycle computed, and plans becomes exactly the set of
\* rows the table held, when the query was evaluated, with start date D.
C7_PlansOfToday ==
    [][ \A i \in DOMAIN cycles :
          PlansResolves(i) =>
              /\ cycles[i].query.gte = cycles[i].today
              /\ cycles[i].query.lte = cycles[i].today
              /\ plans' = {p \in cycles[i].resp.table : p.start_date = cycles[i].today}
      ]_vars

\* plans shows a non-empty result while the table also holds a row of another date.
C7_Witness ==
    /\ lastResolved # 0
    /\ plans # {}
    /\ cycles[lastResolved].got = [data |-> plans]
    /\ \E p \in remotePlans : \A q \in plans : p.start_date # q.start_date

\* C8: plans is the result of the plans query that resolved last, whichever cycle
\* issued it.
C8_LastResolvedWins ==
    lastResolved # 0 => cycles[lastResolved].got = [data |-> plans]

\* Two cycles overlapped, the plans query of the later-started one resolved first,
\* and plans shows the different result of the earlier-started one.
C8_Witness ==
    \E i, j \in DOMAIN cycles :
        /\ i < j
        /\ lastResolved = i
        /\ cycles[j].got # NoResp
        /\ cycles[j].got # cycles[i].got
        /\ plans = cycles[i].got.data

FailsNow(i) == ~Failed(i) /\ cycles'[i].failedAt # "none"

\* The requests of a cycle that failed at req whose results the cycle never applied:
\* req itself and those after it.
Unfetched(req) ==
    CASE req = "plans" -> Requests
      [] req = "workflows" -> {"workflows", "projects", "weather"}
      [] req = "projects" -> {"projects", "weather"}
      [] req = "weather" -> {"weather"}

\* C9 as stated: when a request of a cycle fails, the state of the collection whose
\* request failed and of every collection the cycle has not fetched has the value it
\* had before the cycle.
C9_KeepsValueBeforeCycle ==
    [][ \A i \in DOMAIN cycles :
          FailsNow(i) =>
              \A r \in Unfetched(cycles'[i].failedAt) :
                  ViewOf(r)' = cycles[i].before[r]
      ]_vars

\* What a successful request for r of a cycle other than i sets the view state to.
FetchedByOthers(i, r) ==
    CASE r = "plans" ->
            {cycles[j].got.data : j \in {k \in DOMAIN cycles : k # i /\ cycles[k].got # NoResp}}
      [] r = "workflows" -> {WorkflowsQuery(RemoteWorkflows)}
      [] r = "projects" -> {ProjectsQuery(RemoteProjects)}
      [] r = "weather" -> {WeatherData}

\* C9 as amended: the step in which a request of a cycle fails changes none of
\* plans, workflows, projects and weather, and after it the state of the collection
\* whose request failed and of every collection the cycle has not fetched has the
\* value it had before the cycle, or else the result that another cycle's own
\* successful request for that collection fetched; it is never reset.
C9_FailureKeepsState ==
    [][ \A i \in DOMAIN cycles :
          FailsNow(i) =>
              /\ UNCHANGED view
              /\ \A r \in Unfetched(cycles'[i].failedAt) :
                     \/ ViewOf(r)' = cycles[i].before[r]
                     \/ ViewOf(r)' \in FetchedByOthers(i, r)
      ]_vars

\* A cycle failed at its workflows query: plans keeps what that cycle fetched and
\* workflows what another cycle fetched.
C9_Witness ==
    \E i \in DOMAIN cycles :
        /\ cycles[i].failedAt = "workflows"
        /\ plans # {}
        /\ workflows # {}

\* C10: after mount, when no fetch cycle is in flight, loading is false.
C10_NotStuckLoading ==
    (mounted # "no" /\ \A i \in DOMAIN cycles : ~InFlight(i)) => loading = FALSE

\* Every cycle has ended, one of them by a failure, and loading is false.
C10_Witness ==
    /\ mounted # "no"
    /\ Len(cycles) = 2
    /\ \A i \in DOMAIN cycles : ~InFlight(i)
    /\ \E i \in DOMAIN cycles : Failed(i)
    /\ ~loading

====
